---- MODULE Spec2Model ----
(***************************************************************************)
(* clientRoute (server/public/model/client4_route.go): a value wrapping a  *)
(* url.URL and a stored error, grown by chained Join operations and read   *)
(* by URL() and String().                                                  *)
(*                                                                         *)
(* Strings are sequences of one-character strings, so that escaping,       *)
(* unescaping and path cleaning are computed character by character.       *)
(***************************************************************************)
EXTENDS Integers, Sequences, FiniteSets, TLC

(***************************************************************************)
(* Bounds of the model.                                                    *)
(***************************************************************************)
\* number of Join operations applied to the builder after its construction
MaxOps == 2

(***************************************************************************)
(* Strings.                                                                *)
(***************************************************************************)
Str0 == <<>>

RECURSIVE Contains(_, _)
\* strings.Contains(s, c) for a one-character c
Contains(s, c) ==
    IF s = <<>> THEN FALSE
    ELSE IF Head(s) = c THEN TRUE
    ELSE Contains(Tail(s), c)

HasPrefix(s, c) == s # <<>> /\ Head(s) = c
HasSuffix(s, c) == s # <<>> /\ s[Len(s)] = c

AlphaNum == {"a", "0", "2", "5", "A", "F"}
HexDigits == {"0", "2", "5", "A", "F"}

(***************************************************************************)
(* net/url escaping, restricted to the characters of the model.            *)
(***************************************************************************)
\* url.shouldEscape(c, mode) for mode encodePath and encodePathSegment
shouldEscape(c, mode) ==
    IF c \in AlphaNum THEN FALSE
    ELSE IF c = "." THEN FALSE
    ELSE IF c \in {"/", ":", "@"}
         THEN IF mode = "encodePath" THEN FALSE
              ELSE c = "/"
    ELSE TRUE

\* "%" followed by the two upper-case hex digits of the byte
hexOf(c) ==
    CASE c = " " -> <<"%", "2", "0">>
      [] c = "%" -> <<"%", "2", "5">>
      [] c = "*" -> <<"%", "2", "A">>
      [] c = "/" -> <<"%", "2", "F">>
      [] OTHER   -> <<c>>

\* the byte a "%XY" triple stands for
unhex(x, y) ==
    CASE x = "2" /\ y = "0" -> " "
      [] x = "2" /\ y = "5" -> "%"
      [] x = "2" /\ y = "A" -> "*"
      [] x = "2" /\ y = "F" -> "/"
      [] OTHER              -> "?"

RECURSIVE escape(_, _)
\* url.escape(s, mode)
escape(s, mode) ==
    IF s = <<>> THEN <<>>
    ELSE (IF shouldEscape(Head(s), mode) THEN hexOf(Head(s)) ELSE <<Head(s)>>)
         \o escape(Tail(s), mode)

RECURSIVE escapeOK(_)
\* url.unescape's first pass: every "%" is followed by two hex digits
escapeOK(s) ==
    IF s = <<>> THEN TRUE
    ELSE IF Head(s) = "%"
         THEN /\ Len(s) >= 3
              /\ s[2] \in HexDigits
              /\ s[3] \in HexDigits
              /\ escapeOK(SubSeq(s, 4, Len(s)))
    ELSE escapeOK(Tail(s))

RECURSIVE unescape(_)
\* url.unescape(s, encodePath), for s with escapeOK(s)
unescape(s) ==
    IF s = <<>> THEN <<>>
    ELSE IF Head(s) = "%" /\ Len(s) >= 3
         THEN <<unhex(s[2], s[3])>> \o unescape(SubSeq(s, 4, Len(s)))
    ELSE <<Head(s)>> \o unescape(Tail(s))

\* url.PathEscape(s)
PathEscape(s) == escape(s, "encodePathSegment")

RECURSIVE validEncoded(_)
\* url.validEncoded(s, encodePath)
validEncoded(s) ==
    IF s = <<>> THEN TRUE
    ELSE IF Head(s) \in {"*", ":", "@", "%"} THEN validEncoded(Tail(s))
    ELSE IF shouldEscape(Head(s), "encodePath") THEN FALSE
    ELSE validEncoded(Tail(s))

(***************************************************************************)
(* url.URL, of which the builder only ever sets Path and RawPath.          *)
(***************************************************************************)
ZeroURL == [Path |-> Str0, RawPath |-> Str0]

\* (*URL).setPath(p); the error of a malformed p is dropped by JoinPath
setPath(u, p) ==
    IF ~escapeOK(p) THEN u
    ELSE LET path == unescape(p)
         IN  [Path |-> path,
              RawPath |-> IF escape(path, "encodePath") = p THEN Str0 ELSE p]

\* (*URL).EscapedPath()
EscapedPath(u) ==
    IF /\ u.RawPath # Str0
       /\ validEncoded(u.RawPath)
       /\ escapeOK(u.RawPath)
       /\ unescape(u.RawPath) = u.Path
    THEN u.RawPath
    ELSE IF u.Path = <<"*">> THEN <<"*">>
    ELSE escape(u.Path, "encodePath")

RECURSIVE firstSegment(_)
\* strings.Cut(path, "/"): the part before the first "/"
firstSegment(s) ==
    IF s = <<>> \/ Head(s) = "/" THEN <<>>
    ELSE <<Head(s)>> \o firstSegment(Tail(s))

\* (*URL).String() of a URL without scheme, host, query and fragment
urlString(u) ==
    LET path == EscapedPath(u)
    IN  IF Contains(firstSegment(path), ":") THEN <<".", "/">> \o path
        ELSE path

(***************************************************************************)
(* path.Join and path.Clean, for the rooted paths JoinPath gives them.     *)
(***************************************************************************)
RECURSIVE Split(_)
\* the elements of s between its "/" characters
Split(s) ==
    IF ~Contains(s, "/") THEN <<s>>
    ELSE <<firstSegment(s)>> \o Split(SubSeq(s, Len(firstSegment(s)) + 2, Len(s)))

RECURSIVE cleanElems(_, _)
\* path.Clean's scan of a rooted path: "" and "." are dropped, ".." drops
\* the element before it, and is itself dropped at the root
cleanElems(elems, out) ==
    IF elems = <<>> THEN out
    ELSE LET e == Head(elems)
         IN  IF e = <<>> \/ e = <<".">> THEN cleanElems(Tail(elems), out)
             ELSE IF e = <<".", ".">>
                  THEN cleanElems(Tail(elems),
                                  IF out = <<>> THEN out
                                  ELSE SubSeq(out, 1, Len(out) - 1))
             ELSE cleanElems(Tail(elems), Append(out, e))

RECURSIVE joinElems(_)
\* "/" before every element
joinElems(elems) ==
    IF elems = <<>> THEN <<>>
    ELSE <<"/">> \o Head(elems) \o joinElems(Tail(elems))

\* path.Clean(s) for s starting with "/"
Clean(s) ==
    LET out == cleanElems(Split(s), <<>>)
    IN  IF out = <<>> THEN <<"/">> ELSE joinElems(out)

\* path.Join(a, b) for a starting with "/"
pathJoin(a, b) == Clean(a \o <<"/">> \o b)

\* (*URL).JoinPath(elem) with one element
JoinPath(u, elem) ==
    LET e0 == EscapedPath(u)
        p0 == IF ~HasPrefix(e0, "/")
              THEN Tail(pathJoin(<<"/">> \o e0, elem))
              ELSE pathJoin(e0, elem)
        p  == IF HasSuffix(elem, "/") /\ ~HasSuffix(p0, "/")
              THEN p0 \o <<"/">>
              ELSE p0
        url == u    \* url := *u: the path is set on a copy of the receiver
    IN  setPath(url, p)

(***************************************************************************)
(* Errors: nil, or what fmt.Errorf(format, v) builds.                      *)
(***************************************************************************)
nil == [format |-> "nil"]

Errorf(format, v) == [format |-> format, v |-> v]

\* fmt.Errorf with %w: the error also carries the one it wraps
ErrorfW(format, v, w) == [format |-> format, v |-> v, w |-> w]

\* url.JoinPath("/", elem): the string and the error it returns
urlJoinPath(elem) ==
    LET base == [Path |-> <<"/">>, RawPath |-> Str0]
        p0   == pathJoin(EscapedPath(base), elem)
        p    == IF HasSuffix(elem, "/") /\ ~HasSuffix(p0, "/")
                THEN p0 \o <<"/">>
                ELSE p0
    IN  IF escapeOK(p)
        THEN [val |-> urlString(setPath(base, p)), err |-> nil]
        ELSE [val |-> Str0, err |-> Errorf("invalid URL escape %q", p)]

(***************************************************************************)
(* The validators of the model package, which the builder calls.           *)
(***************************************************************************)
RECURSIVE AllIn(_, _)
AllIn(s, chars) ==
    IF s = <<>> THEN TRUE
    ELSE Head(s) \in chars /\ AllIn(Tail(s), chars)

RECURSIVE Count(_, _)
Count(s, c) ==
    IF s = <<>> THEN 0
    ELSE (IF Head(s) = c THEN 1 ELSE 0) + Count(Tail(s), c)

\* the fixed length of an ID
IdLength == 2

IsValidId(v) == Len(v) = IdLength /\ AllIn(v, AlphaNum)

IsValidUsername(v) == Len(v) >= 1 /\ AllIn(v, AlphaNum \cup {"."})

IsValidTeamName(v) == Len(v) >= 2 /\ AllIn(v, AlphaNum)

IsValidChannelIdentifier(v) == Len(v) >= 1 /\ AllIn(v, AlphaNum)

\* local@domain; the local part of an address may hold "/"
IsValidEmail(v) ==
    /\ Count(v, "@") = 1
    /\ ~HasPrefix(v, "@")
    /\ ~HasSuffix(v, "@")
    /\ AllIn(v, AlphaNum \cup {"@", "/"})

\* nil, or the error that says why the name is rejected
IsValidEmojiName(v) ==
    IF Len(v) >= 1 /\ AllIn(v, AlphaNum) THEN nil
    ELSE Errorf("model.emoji.name.app_error", Str0)

(***************************************************************************)
(* clientRoute.                                                            *)
(***************************************************************************)
\* the zero value: var r clientRoute
zeroRoute == [url |-> ZeroURL, err |-> nil]

\* newClientRoute without the escaping of v
newClientRouteNoEscape(v) ==
    [zeroRoute EXCEPT !.url = JoinPath(zeroRoute.url, v)]

newClientRoute(v) ==
    [zeroRoute EXCEPT !.url = JoinPath(zeroRoute.url, PathEscape(v))]

\* JoinRoute appending "/" and the path of newRoute as text
JoinRouteConcat(r, newRoute) ==
    IF r.err # nil THEN r
    ELSE IF newRoute.err # nil THEN [r EXCEPT !.err = newRoute.err]
    ELSE [r EXCEPT !.url = setPath(r.url, EscapedPath(r.url) \o <<"/">>
                                              \o urlString(newRoute.url))]

\* JoinRoute returning a new value that forgets the error of r
JoinRouteDropsErr(r, newRoute) ==
    IF newRoute.err # nil THEN [url |-> r.url, err |-> newRoute.err]
    ELSE [url |-> JoinPath(r.url, urlString(newRoute.url)), err |-> nil]

\* JoinRoute looking at the error of newRoute before that of r
JoinRouteLastErrWins(r, newRoute) ==
    IF newRoute.err # nil THEN [r EXCEPT !.err = newRoute.err]
    ELSE IF r.err # nil THEN r
    ELSE [r EXCEPT !.url = JoinPath(r.url, urlString(newRoute.url))]

\* JoinRoute without the early return on the error of r
JoinRouteNoGuard(r, newRoute) ==
    IF newRoute.err # nil /\ r.err = nil THEN [r EXCEPT !.err = newRoute.err]
    ELSE [r EXCEPT !.url = JoinPath(r.url, urlString(newRoute.url))]

JoinRoute(r, newRoute) ==
    IF r.err # nil THEN r
    ELSE IF newRoute.err # nil THEN [r EXCEPT !.err = newRoute.err]
    ELSE [r EXCEPT !.url = JoinPath(r.url, urlString(newRoute.url))]

\* JoinSegment joining the escaped value to the path of r itself
JoinSegmentDirect(r, v) ==
    IF Contains(v, "/")
    THEN [r EXCEPT !.err = Errorf("%q contains slashes", v)]
    ELSE IF r.err # nil THEN r
    ELSE [r EXCEPT !.url = JoinPath(r.url, PathEscape(v))]

\* JoinSegment without the check for "/"
JoinSegmentNoCheck(r, v) == JoinRoute(r, newClientRoute(v))

JoinSegment(r, v) ==
    IF Contains(v, "/")
    THEN [r EXCEPT !.err = Errorf("%q contains slashes", v)]
    ELSE JoinRoute(r, newClientRoute(v))

RECURSIVE JoinSegmentsReversed(_, _)
\* JoinSegments ranging over its values from the last to the first
JoinSegmentsReversed(r, values) ==
    IF values = <<>> THEN r
    ELSE JoinSegment(JoinSegmentsReversed(r, Tail(values)), Head(values))

RECURSIVE JoinSegments(_, _)
JoinSegments(r, values) ==
    IF values = <<>> THEN r
    ELSE JoinSegments(JoinSegment(r, Head(values)), Tail(values))

JoinId(r, v) ==
    IF ~IsValidId(v)
    THEN [r EXCEPT !.err = Errorf("%q is not a valid ID", v)]
    ELSE JoinSegment(r, v)

JoinUsername(r, v) ==
    IF ~IsValidUsername(v)
    THEN [r EXCEPT !.err = Errorf("%q is not a valid username", v)]
    ELSE JoinSegment(r, v)

\* JoinTeamname without the call of its validator
JoinTeamnameUnchecked(r, v) == JoinSegment(r, v)

JoinTeamname(r, v) ==
    IF ~IsValidTeamName(v)
    THEN [r EXCEPT !.err = Errorf("%q is not a valid team name", v)]
    ELSE JoinSegment(r, v)

JoinChannelname(r, v) ==
    IF ~IsValidChannelIdentifier(v)
    THEN [r EXCEPT !.err = Errorf("%q is not a valid channel name", v)]
    ELSE JoinSegment(r, v)

\* JoinEmail appending an accepted v itself, not through JoinSegment
JoinEmailDirect(r, v) ==
    IF ~IsValidEmail(v)
    THEN [r EXCEPT !.err = Errorf("%q is not a valid email", v)]
    ELSE JoinRoute(r, newClientRoute(v))

JoinEmail(r, v) ==
    IF ~IsValidEmail(v)
    THEN [r EXCEPT !.err = Errorf("%q is not a valid email", v)]
    ELSE JoinSegment(r, v)

JoinEmojiname(r, v) ==
    IF IsValidEmojiName(v) # nil
    THEN [r EXCEPT !.err = ErrorfW("%q is not a valid emoji name: %w", v,
                                   IsValidEmojiName(v))]
    ELSE JoinSegment(r, v)

\* the pointer is nil exactly when url is NoURL
NoURL == [Path |-> <<"nil">>, RawPath |-> <<"nil">>]

\* URL returning the copy of r.url as it is stored
URLStoredCopy(r) ==
    IF r.err # nil THEN [url |-> NoURL, err |-> r.err]
    ELSE [url |-> r.url, err |-> nil]

URL(r) ==
    IF r.err # nil THEN [url |-> NoURL, err |-> r.err]
    ELSE LET res == urlJoinPath(urlString(r.url))
         IN  IF res.err # nil THEN [url |-> NoURL, err |-> res.err]
             ELSE [url |-> [r.url EXCEPT !.Path = res.val], err |-> nil]

\* String computing the path before it looks at the error
StringLeaksPath(r) ==
    [val |-> urlJoinPath(urlString(r.url)).val,
     err |-> IF r.err # nil THEN r.err ELSE urlJoinPath(urlString(r.url)).err]

\* String without the join to "/"
StringRaw(r) ==
    IF r.err # nil THEN [val |-> Str0, err |-> r.err]
    ELSE [val |-> urlString(r.url), err |-> nil]

String(r) ==
    IF r.err # nil THEN [val |-> Str0, err |-> r.err]
    ELSE urlJoinPath(urlString(r.url))

(***************************************************************************)
(* The inputs of the operations.                                           *)
(***************************************************************************)
\* arguments of newClientRoute and JoinSegment
Values ==
    { <<>>,
      <<"a">>,
      <<"a", " ", "a">>,
      <<"a", "/", "a">>,
      <<".">>,
      <<".", ".">>,
      <<"*">>,
      <<"a", ":", "a">>,
      <<"%", "2", "F">> }

\* argument lists of JoinSegments
SegLists ==
    { <<>>,
      << <<"a">> >>,
      << <<"a">>, <<"a", " ", "a">> >>,
      << <<"a">>, <<"a", "/", "a">> >>,
      << <<"a", "/", "a">>, <<"/">> >>,
      << <<"/">>, <<"a", "/", "a">> >>,
      << <<"a", "/", "a">>, <<"a">>, <<"/">> >>,
      << <<"a">>, <<"/">>, <<"a", "/", "a">> >> }

\* arguments of the typed joins: rejected ones, accepted ones and, for the
\* e-mail address, an accepted one that holds a "/"
IdValues == { <<"a">>, <<"a", "a">>, <<"a", "/", "a">> }
UsernameValues == { <<"a">>, <<".">>, <<"a", " ", "a">> }
TeamnameValues == { <<"a">>, <<"a", "a">> }
ChannelnameValues == { <<"a">>, <<"a", "/", "a">> }
EmailValues == { <<"a">>, <<"a", "@", "a">>, <<"a", "/", "a", "@", "a">> }
EmojinameValues == { <<"a">>, <<>> }

\* arguments of newClientRoute when its result is handed to JoinRoute
NewValues == { <<"a">>, <<"a", "/", "a">>, <<"*">>, <<".", ".">> }

\* routes built apart from the chain and handed to JoinRoute
SubRoutes ==
    { zeroRoute,
      JoinSegment(newClientRoute(<<"a">>), <<"a", " ", "a">>),
      JoinSegment(newClientRoute(<<"a">>), <<"a", "/", "a">>),
      JoinId(newClientRoute(<<"a", ":", "a">>), <<"a", "a">>),
      JoinId(newClientRoute(<<"a", ":", "a">>), <<"a">>),
      JoinEmojiname(zeroRoute, <<"*">>) }

(***************************************************************************)
(* State: the builder at the end of the chain (r), the builder the last    *)
(* operation was called on (prev), that operation (op), the number of Join *)
(* operations so far (n) and what a finalizer returned (out).  History:    *)
(* firstErr is the error of the first operation that left one, laterValid  *)
(* says that every operation after it succeeds on its own, vals are the    *)
(* values of a chain of plain appends, passed says that every operation so *)
(* far passed its own check, after holds the argument and the receiver of  *)
(* the last call as the caller finds them when the call has returned.      *)
(*                                                                         *)
(* Two threads deriving chains from one builder: base is the builder both  *)
(* start from, plan the operations of each thread, done how many of them   *)
(* it has made, cur the value its chain has reached, res what its          *)
(* finalizer returned; base0 is base as it was at the start.               *)
(***************************************************************************)
VARIABLES r, prev, op, n, out, firstErr, laterValid, vals, passed, after,
          base, base0, plan, done, cur, res

chainVars == <<r, prev, op, n, out, firstErr, laterValid, vals, passed, after>>

threadVars == <<base, base0, plan, done, cur, res>>

vars == <<chainVars, threadVars>>

Op(name, arg, args, route) ==
    [name |-> name, arg |-> arg, args |-> args, route |-> route]

NoOut == [val |-> <<"none">>, err |-> nil]

\* the values a chain may append for its String() to be their escaped join
PlainValue(v) == v # Str0 /\ ~Contains(v, "/")

RECURSIVE AllPlain(_)
AllPlain(vs) == vs = <<>> \/ (PlainValue(Head(vs)) /\ AllPlain(Tail(vs)))

\* vals when the chain is not one of plain appends only
NotPlain == <<"not plain">>

\* the operation applied to a builder
Apply(b, o) ==
    CASE o.name = "JoinRoute"       -> JoinRoute(b, o.route)
      [] o.name = "JoinRouteNew"    -> JoinRoute(b, newClientRoute(o.arg))
      [] o.name = "JoinSegment"     -> JoinSegment(b, o.arg)
      [] o.name = "JoinSegments"    -> JoinSegments(b, o.args)
      [] o.name = "JoinId"          -> JoinId(b, o.arg)
      [] o.name = "JoinUsername"    -> JoinUsername(b, o.arg)
      [] o.name = "JoinTeamname"    -> JoinTeamname(b, o.arg)
      [] o.name = "JoinChannelname" -> JoinChannelname(b, o.arg)
      [] o.name = "JoinEmail"       -> JoinEmail(b, o.arg)
      [] o.name = "JoinEmojiname"   -> JoinEmojiname(b, o.arg)

\* ReceiverAfter for methods with pointer receivers that write through them
ReceiverAfterPointer(b, o) ==
    IF o.name \in {"String", "URL"} THEN b ELSE Apply(b, o)

\* the receiver as the caller finds it after the call: every method has a
\* value receiver, so its assignments to r change the callee's copy
ReceiverAfter(b, o) == b

\* the argument of JoinRoute as the caller finds it after the call: newRoute
\* is passed by value and only read
ArgumentAfter(o) == o.route

\* the operation's own check: no "/" in a segment, a value its validator
\* accepts, a route without error
Passes(o) ==
    CASE o.name \in {"JoinRoute", "JoinRouteNew"} -> o.route.err = nil
      [] o.name = "JoinSegment"     -> ~Contains(o.arg, "/")
      [] o.name = "JoinSegments"    ->
             \A i \in 1..Len(o.args) : ~Contains(o.args[i], "/")
      [] o.name = "JoinId"          -> IsValidId(o.arg) /\ ~Contains(o.arg, "/")
      [] o.name = "JoinUsername"    ->
             IsValidUsername(o.arg) /\ ~Contains(o.arg, "/")
      [] o.name = "JoinTeamname"    ->
             IsValidTeamName(o.arg) /\ ~Contains(o.arg, "/")
      [] o.name = "JoinChannelname" ->
             IsValidChannelIdentifier(o.arg) /\ ~Contains(o.arg, "/")
      [] o.name = "JoinEmail"       ->
             IsValidEmail(o.arg) /\ ~Contains(o.arg, "/")
      [] o.name = "JoinEmojiname"   ->
             IsValidEmojiName(o.arg) = nil /\ ~Contains(o.arg, "/")

\* the values the operation appends when it is a plain append
Appended(o) ==
    CASE o.name \in {"JoinRouteNew", "JoinSegment"} ->
             IF PlainValue(o.arg) THEN <<o.arg>> ELSE NotPlain
      [] o.name = "JoinSegments" ->
             IF AllPlain(o.args) THEN o.args ELSE NotPlain
      [] OTHER -> NotPlain

\* the threads, two of them
Threads == {1, 2}

NoRes == <<"none", NoOut>>

\* no thread is at work
NoThreads ==
    /\ base = zeroRoute
    /\ base0 = zeroRoute
    /\ plan = [t \in Threads |-> <<>>]
    /\ done = [t \in Threads |-> 0]
    /\ cur = [t \in Threads |-> zeroRoute]
    /\ res = [t \in Threads |-> NoRes]

Init ==
    /\ \/ r = zeroRoute /\ op = Op("zero", Str0, <<>>, zeroRoute) /\ vals = <<>>
       \/ \E v \in Values :
            /\ r = newClientRoute(v)
            /\ op = Op("newClientRoute", v, <<>>, zeroRoute)
            /\ vals = IF PlainValue(v) THEN <<v>> ELSE NotPlain
    /\ prev = zeroRoute
    /\ n = 0
    /\ out = NoOut
    /\ firstErr = nil
    /\ laterValid = TRUE
    /\ passed = TRUE
    /\ after = [arg |-> zeroRoute, recv |-> zeroRoute]
    /\ NoThreads

\* the chain may go on: no finalizer has ended it
CanJoin == n < MaxOps /\ out = NoOut

\* one Join operation of the chain: the call returns a new value, which the
\* chain goes on with
Step(o) ==
    /\ r' = Apply(r, o)
    /\ prev' = r
    /\ op' = o
    /\ n' = n + 1
    /\ out' = NoOut
    /\ firstErr' = IF firstErr = nil THEN r'.err ELSE firstErr
    /\ laterValid' = IF firstErr = nil THEN TRUE
                     ELSE laterValid /\ Apply(zeroRoute, o).err = nil
    /\ vals' = IF vals = NotPlain \/ Appended(o) = NotPlain THEN NotPlain
               ELSE vals \o Appended(o)
    /\ passed' = (passed /\ Passes(o))
    /\ after' = [arg |-> ArgumentAfter(o), recv |-> ReceiverAfter(r, o)]
    /\ UNCHANGED threadVars

DoJoinRoute ==
    \/ \E sub \in SubRoutes :
           /\ CanJoin
           /\ Step(Op("JoinRoute", Str0, <<>>, sub))
    \/ \E v \in NewValues :
           /\ CanJoin
           /\ Step(Op("JoinRouteNew", v, <<>>, newClientRoute(v)))

DoJoinSegment ==
    \E v \in Values :
        /\ CanJoin
        /\ Step(Op("JoinSegment", v, <<>>, zeroRoute))

DoJoinSegments ==
    \E vs \in SegLists :
        /\ CanJoin
        /\ Step(Op("JoinSegments", Str0, vs, zeroRoute))

DoJoinId ==
    \E v \in IdValues :
        /\ CanJoin
        /\ Step(Op("JoinId", v, <<>>, zeroRoute))

DoJoinUsername ==
    \E v \in UsernameValues :
        /\ CanJoin
        /\ Step(Op("JoinUsername", v, <<>>, zeroRoute))

DoJoinTeamname ==
    \E v \in TeamnameValues :
        /\ CanJoin
        /\ Step(Op("JoinTeamname", v, <<>>, zeroRoute))

DoJoinChannelname ==
    \E v \in ChannelnameValues :
        /\ CanJoin
        /\ Step(Op("JoinChannelname", v, <<>>, zeroRoute))

DoJoinEmail ==
    \E v \in EmailValues :
        /\ CanJoin
        /\ Step(Op("JoinEmail", v, <<>>, zeroRoute))

DoJoinEmojiname ==
    \E v \in EmojinameValues :
        /\ CanJoin
        /\ Step(Op("JoinEmojiname", v, <<>>, zeroRoute))

\* a finalizer ends the chain; the chain variable is its receiver, and a
\* resolved builder may be resolved again
Finalize(name, result) ==
    /\ out' = result
    /\ op' = Op(name, Str0, <<>>, zeroRoute)
    /\ prev' = r
    /\ r' = ReceiverAfter(r, Op(name, Str0, <<>>, zeroRoute))
    /\ after' = [arg |-> zeroRoute,
                 recv |-> ReceiverAfter(r, Op(name, Str0, <<>>, zeroRoute))]
    /\ UNCHANGED <<n, firstErr, laterValid, vals, passed>>
    /\ UNCHANGED threadVars

DoString ==
    /\ Finalize("String", String(r))

DoURL ==
    /\ Finalize("URL", [val |-> IF URL(r).url = NoURL THEN Str0 ELSE URL(r).url.Path,
                        err |-> URL(r).err])

Next ==
    \/ DoJoinRoute
    \/ DoJoinSegment
    \/ DoJoinSegments
    \/ DoJoinId
    \/ DoJoinUsername
    \/ DoJoinTeamname
    \/ DoJoinChannelname
    \/ DoJoinEmail
    \/ DoJoinEmojiname
    \/ DoString
    \/ DoURL

Spec == Init /\ [][Next]_vars

(***************************************************************************)
(* Two threads, each deriving its own chain from the builder base.  The    *)
(* first call of a thread has base as its receiver, the later ones the     *)
(* value the thread's call before returned.  The calls of the two threads  *)
(* interleave in any order.                                                *)
(***************************************************************************)

\* the builders the threads start from
Bases ==
    { zeroRoute,
      newClientRoute(<<"a">>),
      JoinSegment(newClientRoute(<<"a">>), <<"a", "/", "a">>) }

\* the chains a thread may make
Chains ==
    { <<>>,
      << Op("JoinSegment", <<"a">>, <<>>, zeroRoute) >>,
      << Op("JoinSegment", <<"a", "/", "a">>, <<>>, zeroRoute) >>,
      << Op("JoinId", <<"a", "a">>, <<>>, zeroRoute),
         Op("JoinSegment", <<"a", " ", "a">>, <<>>, zeroRoute) >>,
      << Op("JoinRoute", Str0, <<>>, newClientRoute(<<"a", ":", "a">>)),
         Op("JoinSegments", Str0, << <<"a">>, <<"/">> >>, zeroRoute) >>,
      << Op("JoinEmail", <<"a">>, <<>>, zeroRoute),
         Op("JoinUsername", <<"a">>, <<>>, zeroRoute) >> }

\* no chain but those of the threads
NoChain ==
    /\ r = zeroRoute
    /\ prev = zeroRoute
    /\ op = Op("zero", Str0, <<>>, zeroRoute)
    /\ n = 0
    /\ out = NoOut
    /\ firstErr = nil
    /\ laterValid = TRUE
    /\ vals = <<>>
    /\ passed = TRUE
    /\ after = [arg |-> zeroRoute, recv |-> zeroRoute]

ThreadInit ==
    /\ base \in Bases
    /\ base0 = base
    /\ plan \in [Threads -> Chains]
    /\ done = [t \in Threads |-> 0]
    /\ cur = [t \in Threads |-> zeroRoute]
    /\ res = [t \in Threads |-> NoRes]
    /\ NoChain

\* the receiver of the next call of thread t
Receiver(t) == IF done[t] = 0 THEN base ELSE cur[t]

\* what URL() returns, its URL given by its Path
URLResult(b) ==
    LET u == URL(b)
    IN  [val |-> IF u.url = NoURL THEN Str0 ELSE u.url.Path, err |-> u.err]

\* thread t makes the next Join call of its chain
ThreadJoin(t) ==
    /\ res[t] = NoRes
    /\ done[t] < Len(plan[t])
    /\ cur' = [cur EXCEPT ![t] = Apply(Receiver(t), plan[t][done[t] + 1])]
    /\ base' = IF done[t] = 0 THEN ReceiverAfter(base, plan[t][done[t] + 1])
               ELSE base
    /\ done' = [done EXCEPT ![t] = done[t] + 1]
    /\ UNCHANGED <<base0, plan, res>>
    /\ UNCHANGED chainVars

\* thread t resolves the end of its chain
ThreadFinalize(t, name, result) ==
    /\ res[t] = NoRes
    /\ done[t] = Len(plan[t])
    /\ res' = [res EXCEPT ![t] = <<name, result>>]
    /\ base' = IF done[t] = 0
               THEN ReceiverAfter(base, Op(name, Str0, <<>>, zeroRoute))
               ELSE base
    /\ UNCHANGED <<base0, plan, done, cur>>
    /\ UNCHANGED chainVars

ThreadString(t) ==
    /\ ThreadFinalize(t, "String", String(Receiver(t)))

ThreadURL(t) ==
    /\ ThreadFinalize(t, "URL", URLResult(Receiver(t)))

ThreadNext ==
    \E t \in Threads :
        \/ ThreadJoin(t)
        \/ ThreadString(t)
        \/ ThreadURL(t)

SpecThreads == ThreadInit /\ [][ThreadNext]_vars

(***************************************************************************)
(* What the properties below speak about.                                  *)
(***************************************************************************)
TypedJoins ==
    {"JoinId", "JoinUsername", "JoinTeamname", "JoinChannelname", "JoinEmail",
     "JoinEmojiname"}

JoinNames == {"JoinRoute", "JoinRouteNew", "JoinSegment", "JoinSegments"} \cup TypedJoins

\* the last step was a Join operation
IsJoin == op.name \in JoinNames

SlashError(v) == Errorf("%q contains slashes", v)

\* String() and URL() both fail with e and return nothing else
FailsWith(b, e) ==
    /\ String(b) = [val |-> Str0, err |-> e]
    /\ URL(b) = [url |-> NoURL, err |-> e]

RECURSIVE AnySlash(_)
AnySlash(vs) == vs # <<>> /\ (Contains(Head(vs), "/") \/ AnySlash(Tail(vs)))

RECURSIVE FirstSlashed(_)
\* the first element that holds a "/", of a list that has one
FirstSlashed(vs) ==
    IF Contains(Head(vs), "/") THEN Head(vs) ELSE FirstSlashed(Tail(vs))

RECURSIVE BeforeSlashed(_)
\* the elements before the first one that holds a "/"
BeforeSlashed(vs) ==
    IF vs = <<>> \/ Contains(Head(vs), "/") THEN <<>>
    ELSE <<Head(vs)>> \o BeforeSlashed(Tail(vs))

\* the non-empty segments of a path
Segs(s) == SelectSeq(Split(s), LAMBDA e : e # <<>>)

(***************************************************************************)
(* C1: once an operation of the chain has left an error, String() and      *)
(* URL() of the whole chain return that first error, whatever the later    *)
(* operations are.                                                         *)
(***************************************************************************)
C1_StickyFirstError ==
    firstErr # nil => String(r).err = firstErr /\ URL(r).err = firstErr

(***************************************************************************)
(* C2: JoinSegments on a builder without error, given a list with elements *)
(* that hold a "/", reports the "contains slashes" error of the first such *)
(* element.                                                                *)
(***************************************************************************)
C2_FirstSlashedElementWins ==
    (op.name = "JoinSegments" /\ prev.err = nil /\ AnySlash(op.args))
        => /\ String(r).err = SlashError(FirstSlashed(op.args))
           /\ URL(r).err = SlashError(FirstSlashed(op.args))

(***************************************************************************)
(* C3: when an operation of the chain fails and every later operation      *)
(* succeeds on its own, String() returns an error, the one the failing     *)
(* operation left, which is of the kind of that operation.                 *)
(***************************************************************************)
\* the errors the operation o may leave on a builder without error
OwnErrors(o) ==
    CASE o.name = "JoinSegment"     -> {SlashError(o.arg)}
      [] o.name = "JoinSegments"    -> {SlashError(o.args[i]) : i \in 1..Len(o.args)}
      [] o.name = "JoinRoute"       -> {o.route.err}
      [] o.name = "JoinRouteNew"    -> {}
      [] o.name = "JoinId"          ->
             {Errorf("%q is not a valid ID", o.arg), SlashError(o.arg)}
      [] o.name = "JoinUsername"    ->
             {Errorf("%q is not a valid username", o.arg), SlashError(o.arg)}
      [] o.name = "JoinTeamname"    ->
             {Errorf("%q is not a valid team name", o.arg), SlashError(o.arg)}
      [] o.name = "JoinChannelname" ->
             {Errorf("%q is not a valid channel name", o.arg), SlashError(o.arg)}
      [] o.name = "JoinEmail"       ->
             {Errorf("%q is not a valid email", o.arg), SlashError(o.arg)}
      [] o.name = "JoinEmojiname"   ->
             {ErrorfW("%q is not a valid emoji name: %w", o.arg, IsValidEmojiName(o.arg)),
              SlashError(o.arg)}

C3_ErrorPropagation ==
    /\ (IsJoin /\ prev.err = nil /\ r.err # nil)
           => firstErr = r.err /\ r.err \in OwnErrors(op)
    /\ (firstErr # nil /\ laterValid)
           => String(r).err # nil /\ String(r).err = firstErr

\* a valid JoinSegment after a JoinId that failed
C3_Witness ==
    /\ op.name = "JoinSegment"
    /\ laterValid
    /\ prev.err = Errorf("%q is not a valid ID", <<"a">>)
    /\ prev.url # ZeroURL

(***************************************************************************)
(* C4: JoinSegment(v) with a "/" in v, on a builder without error, leaves  *)
(* the path as it was and sets the "contains slashes" error quoting v, so  *)
(* that String() and URL() fail with it; v is not appended.                *)
(***************************************************************************)
C4_SlashRejection ==
    (op.name = "JoinSegment" /\ prev.err = nil /\ Contains(op.arg, "/"))
        => /\ r.url = prev.url
           /\ r.err = SlashError(op.arg)
           /\ FailsWith(r, SlashError(op.arg))

C4_Witness ==
    /\ op.name = "JoinSegment"
    /\ prev.err = nil
    /\ prev.url # ZeroURL
    /\ op.arg = <<"a", "/", "a">>

(***************************************************************************)
(* C5: a chain that only appends non-empty values without "/" (with        *)
(* newClientRoute, JoinSegment, JoinSegments, JoinRoute(newClientRoute(v)))*)
(* has no error, and its String() is "/" followed by the escaped values in *)
(* the order of appending, joined by "/".                                  *)
(***************************************************************************)
\* "/" and the escaped values joined by "/"
EscapedJoin(vs) ==
    IF vs = <<>> THEN <<"/">>
    ELSE joinElems([i \in 1..Len(vs) |-> PathEscape(vs[i])])

\* the original statement: every non-empty value without "/"
C5_OrderedConcatenation ==
    vals # NotPlain => String(r) = [val |-> EscapedJoin(vals), err |-> nil]

\* the values that path cleaning drops (".", "..") or that are written
\* unescaped ("*")
Special == { <<".">>, <<".", ".">>, <<"*">> }

\* as amended: no value is ".", ".." or "*"
C5_OrderedConcatenationAmended ==
    (vals # NotPlain /\ \A i \in 1..Len(vals) : vals[i] \notin Special)
        => /\ String(r) = [val |-> EscapedJoin(vals), err |-> nil]
           /\ r.err = nil

C5_Witness ==
    /\ vals # NotPlain
    /\ Len(vals) = 3
    /\ \A i \in 1..Len(vals) : vals[i] \notin Special
    /\ vals[1] # vals[2]
    /\ op.name = "JoinRouteNew"

(***************************************************************************)
(* C6: a typed join on a builder without error leaves the path unchanged   *)
(* and sets the error of its kind, quoting v, when its validator rejects   *)
(* v; when the validator accepts v the result is that of JoinSegment(v),   *)
(* so that an accepted v with a "/" gets the "contains slashes" error.     *)
(***************************************************************************)
Accepts(name, v) ==
    CASE name = "JoinId"          -> IsValidId(v)
      [] name = "JoinUsername"    -> IsValidUsername(v)
      [] name = "JoinTeamname"    -> IsValidTeamName(v)
      [] name = "JoinChannelname" -> IsValidChannelIdentifier(v)
      [] name = "JoinEmail"       -> IsValidEmail(v)
      [] name = "JoinEmojiname"   -> IsValidEmojiName(v) = nil

KindError(name, v) ==
    CASE name = "JoinId"          -> Errorf("%q is not a valid ID", v)
      [] name = "JoinUsername"    -> Errorf("%q is not a valid username", v)
      [] name = "JoinTeamname"    -> Errorf("%q is not a valid team name", v)
      [] name = "JoinChannelname" -> Errorf("%q is not a valid channel name", v)
      [] name = "JoinEmail"       -> Errorf("%q is not a valid email", v)
      [] name = "JoinEmojiname"   ->
             ErrorfW("%q is not a valid emoji name: %w", v, IsValidEmojiName(v))

C6_TypedJoinGate ==
    (op.name \in TypedJoins /\ prev.err = nil)
        => /\ ~Accepts(op.name, op.arg)
               => r.url = prev.url /\ r.err = KindError(op.name, op.arg)
           /\ Accepts(op.name, op.arg)
               => /\ r = JoinSegment(prev, op.arg)
                  /\ Contains(op.arg, "/")
                         => r.url = prev.url /\ r.err = SlashError(op.arg)
                  /\ ~Contains(op.arg, "/") => r.err = nil

\* an accepted e-mail address that holds a "/"
C6_Witness ==
    /\ op.name = "JoinEmail"
    /\ prev.err = nil
    /\ prev.url # ZeroURL
    /\ IsValidEmail(op.arg)
    /\ Contains(op.arg, "/")

(***************************************************************************)
(* C7: a.JoinRoute(b) is a when a has an error; it has a's path and b's    *)
(* error when only b has an error; b's path is appended only when neither  *)
(* has an error.                                                           *)
(***************************************************************************)
\* the argument of the last JoinRoute
SubRoute == IF op.name = "JoinRouteNew" THEN newClientRoute(op.arg) ELSE op.route

C7_JoinRouteFirstErrorWins ==
    (op.name \in {"JoinRoute", "JoinRouteNew"})
        => /\ prev.err # nil => r = prev
           /\ (prev.err = nil /\ SubRoute.err # nil)
                  => r.url = prev.url /\ r.err = SubRoute.err
           /\ (prev.err = nil /\ SubRoute.err = nil)
                  => /\ r.err = nil
                     /\ Segs(String(r).val)
                            = Segs(String(prev).val) \o Segs(String(SubRoute).val)
           /\ r.url # prev.url => prev.err = nil /\ SubRoute.err = nil

\* both have an error, and not the same one
C7_Witness ==
    /\ op.name = "JoinRoute"
    /\ prev.err # nil
    /\ op.route.err # nil
    /\ op.route.err # prev.err
    /\ op.route.url # prev.url

(***************************************************************************)
(* C8: every Join operation on a builder with an error returns a builder   *)
(* with an error; once the chain has an error, String() and URL() fail.    *)
(***************************************************************************)
C8_FailedIsTerminal ==
    /\ (IsJoin /\ prev.err # nil) => r.err # nil
    /\ firstErr # nil
           => r.err # nil /\ String(r).err # nil /\ URL(r).err # nil

\* a valid segment joined to a builder with an error
C8_Witness ==
    /\ op.name = "JoinSegments"
    /\ prev.err # nil
    /\ op.args # <<>>
    /\ ~AnySlash(op.args)

(***************************************************************************)
(* C9: every Join operation on a builder with an error returns a builder   *)
(* with the same stored path; the operation that first sets the error      *)
(* leaves the path as it was before that operation.                        *)
(***************************************************************************)
\* the original statement
C9_PathFrozen ==
    /\ (IsJoin /\ prev.err # nil) => r.url = prev.url
    /\ (IsJoin /\ prev.err = nil /\ r.err # nil) => r.url = prev.url

\* as amended: JoinSegments, which first sets the error at its first element
\* with a "/", has appended the elements before that one
C9_PathFrozenAmended ==
    /\ (IsJoin /\ prev.err # nil) => r.url = prev.url
    /\ (IsJoin /\ op.name # "JoinSegments" /\ prev.err = nil /\ r.err # nil)
           => r.url = prev.url
    /\ (op.name = "JoinSegments" /\ prev.err = nil /\ r.err # nil)
           => /\ AnySlash(op.args)
              /\ r.url = JoinSegments(prev, BeforeSlashed(op.args)).url

\* a route without error joined to a builder with an error and a path
C9_Witness ==
    /\ op.name = "JoinRouteNew"
    /\ prev.err # nil
    /\ prev.url # ZeroURL
    /\ newClientRoute(op.arg).err = nil

(***************************************************************************)
(* C10: String() returns an error or a string that starts with "/", URL()  *)
(* returns an error or a URL whose Path starts with "/"; the empty builder *)
(* resolves to "/".                                                        *)
(***************************************************************************)
C10_LeadingSlash ==
    LET s == String(r)
        u == URL(r)
    IN  /\ s.err # nil \/ HasPrefix(s.val, "/")
        /\ u.err # nil \/ HasPrefix(u.url.Path, "/")
        /\ r = zeroRoute
               => /\ s = [val |-> <<"/">>, err |-> nil]
                  /\ u.err = nil
                  /\ u.url.Path = <<"/">>

\* a chain of two segments, the first with a colon
C10_Witness ==
    /\ op.name = "JoinSegment"
    /\ r.err = nil
    /\ Len(Segs(String(r).val)) = 2
    /\ Contains(r.url.Path, ":")

(***************************************************************************)
(* C11: on a builder with an error String() returns the empty string and   *)
(* that error, URL() returns a nil URL and that error; nothing of the      *)
(* stored path is returned.                                                *)
(***************************************************************************)
C11_FailedFinalizers ==
    /\ r.err # nil => FailsWith(r, r.err)
    /\ (op.name \in {"String", "URL"} /\ prev.err # nil)
           => out = [val |-> Str0, err |-> prev.err]

\* String() called on a builder with an error and a path
C11_Witness ==
    /\ op.name = "String"
    /\ r.err # nil
    /\ r.url # ZeroURL
    /\ out.err = r.err

(***************************************************************************)
(* C12: String() and URL() fail with the same error or both succeed, and   *)
(* then the string of String() is the Path of the URL of URL().            *)
(***************************************************************************)
C12_FinalizersAgree ==
    LET s == String(r)
        u == URL(r)
    IN  /\ s.err = u.err
        /\ s.err = nil => u.url # NoURL /\ s.val = u.url.Path
        /\ s.err # nil => u.url = NoURL

\* URL() called on a builder without error whose path holds an escape
C12_Witness ==
    /\ op.name = "URL"
    /\ r.err = nil
    /\ out.err = nil
    /\ Contains(out.val, "%")
    /\ Len(Segs(out.val)) = 2

\* the builders taken as the third operand of two nested JoinRoute calls
ThirdRoutes == SubRoutes \cup { newClientRoute(<<"*">>) }

\* String() of both builders fails, or it succeeds with the same string
SameResolution(x, y) ==
    LET sx == String(x)
        sy == String(y)
    IN  /\ (sx.err = nil) = (sy.err = nil)
        /\ sx.err = nil => sx.val = sy.val

(***************************************************************************)
(* C13: JoinRoute is associative: for builders a, b and c, with or without *)
(* an error, (a.JoinRoute(b)).JoinRoute(c) and a.JoinRoute(b.JoinRoute(c)) *)
(* both fail on String() or both succeed with the same string.  Here a is  *)
(* the receiver and b the argument of the JoinRoute call just made, and c  *)
(* is any builder of ThirdRoutes.                                          *)
(***************************************************************************)
C13_JoinRouteAssociative ==
    (op.name \in {"JoinRoute", "JoinRouteNew"})
        => \A c \in ThirdRoutes :
               SameResolution(JoinRoute(r, c),
                              JoinRoute(prev, JoinRoute(SubRoute, c)))

\* three builders without error and with a path each, joined in order
C13_Witness ==
    /\ op.name = "JoinRoute"
    /\ prev.err = nil /\ prev.url # ZeroURL
    /\ op.route.err = nil /\ op.route.url # ZeroURL
    /\ r.err = nil
    /\ \E c \in ThirdRoutes :
           /\ c.err = nil /\ c.url # ZeroURL
           /\ String(JoinRoute(r, c)).err = nil
           /\ Len(Segs(String(JoinRoute(r, c)).val)) >= 4

\* newClientRoute(v) has no error and resolves to "/" and the escaped v,
\* which unescapes to v
RoundTrip(b, v) ==
    /\ b.err = nil
    /\ String(b) = [val |-> <<"/">> \o PathEscape(v), err |-> nil]
    /\ escapeOK(Tail(String(b).val))
    /\ unescape(Tail(String(b).val)) = v

(***************************************************************************)
(* C14: for every v without "/", newClientRoute(v) has no error, String()  *)
(* returns "/" followed by the percent-escaped v, and unescaping that      *)
(* segment gives v; newClientRoute has no error for any v, a v with "/"    *)
(* is escaped as one segment and the empty v resolves to "/".              *)
(***************************************************************************)
C14_EscapeRoundTrip ==
    (op.name = "newClientRoute")
        => /\ r.err = nil /\ String(r).err = nil
           /\ ~Contains(op.arg, "/") => RoundTrip(r, op.arg)
           /\ Contains(op.arg, "/") => Len(Segs(String(r).val)) = 1
           /\ op.arg = Str0 => String(r).val = <<"/">>

(***************************************************************************)
(* C14 amended: the round trip holds for every v without "/" other than    *)
(* ".", ".." and "*".  For "." and ".." String() returns "/", for "*" it   *)
(* returns "/*".  newClientRoute has no error for any v, a v with "/" is   *)
(* escaped as one segment and the empty v resolves to "/".                 *)
(***************************************************************************)
C14_EscapeRoundTripAmended ==
    (op.name = "newClientRoute")
        => /\ r.err = nil /\ String(r).err = nil
           /\ (~Contains(op.arg, "/") /\ op.arg \notin {<<".">>, <<".", ".">>, <<"*">>})
                  => RoundTrip(r, op.arg)
           /\ op.arg \in {<<".">>, <<".", ".">>} => String(r).val = <<"/">>
           /\ op.arg = <<"*">> => String(r).val = <<"/", "*">>
           /\ Contains(op.arg, "/") => Len(Segs(String(r).val)) = 1
           /\ op.arg = Str0 => String(r).val = <<"/">>

\* newClientRoute of a value that is escaped: "%2F" becomes "%252F"
C14_Witness ==
    /\ op.name = "newClientRoute"
    /\ op.arg = <<"%", "2", "F">>
    /\ String(r).val = <<"/", "%", "2", "5", "2", "F">>
    /\ unescape(Tail(String(r).val)) = op.arg

RECURSIVE Alone(_, _)
Alone(b, ops) == IF ops = <<>> THEN b ELSE Alone(Apply(b, Head(ops)), Tail(ops))

RECURSIVE Chained(_, _)
Chained(b, vs) ==
    IF vs = <<>> THEN b
    ELSE JoinSegment(Chained(b, SubSeq(vs, 1, Len(vs) - 1)), vs[Len(vs)])

(***************************************************************************)
(* C17: for every builder, with or without an error, and every sequence of *)
(* values, JoinSegments returns the builder that calling JoinSegment with  *)
(* each value in order returns, path and error; with no values it returns  *)
(* the builder it was called on.                                           *)
(***************************************************************************)
C17_JoinSegmentsIsFold ==
    (op.name = "JoinSegments")
        => /\ r = Chained(prev, op.args)
           /\ op.args = <<>> => r = prev /\ String(r) = String(prev)

\* JoinSegments with three values, one of them with a "/" before the last
C17_Witness ==
    /\ op.name = "JoinSegments"
    /\ Len(op.args) = 3
    /\ Contains(op.args[1], "/")
    /\ prev.url # ZeroURL
    /\ r = JoinSegment(JoinSegment(JoinSegment(prev, op.args[1]), op.args[2]),
                       op.args[3])

(***************************************************************************)
(* C18: JoinSegment("") on a builder without error returns a builder       *)
(* without error whose String() is that of the builder it was called on;   *)
(* newClientRoute("") resolves to "/".                                     *)
(***************************************************************************)
C18_EmptySegment ==
    /\ (op.name = "JoinSegment" /\ op.arg = Str0 /\ prev.err = nil)
           => /\ r.err = nil
              /\ String(r).err = nil
              /\ String(r) = String(prev)
    /\ (op.name = "newClientRoute" /\ op.arg = Str0)
           => String(r) = [val |-> <<"/">>, err |-> nil]

\* JoinSegment("") called on a builder without error and with a path
C18_Witness ==
    /\ op.name = "JoinSegment"
    /\ op.arg = Str0
    /\ prev.err = nil
    /\ prev.url # ZeroURL
    /\ String(r).val # <<"/">>

\* s is t or the start of t
IsPrefix(s, t) == Len(s) <= Len(t) /\ s = SubSeq(t, 1, Len(s))

(***************************************************************************)
(* C19: for a builder without error and a Join operation whose result has  *)
(* no error, the segments of String() of the builder are the first         *)
(* segments of String() of the result, in the same order: no value, "."    *)
(* and ".." included, removes or rewrites an earlier segment.              *)
(***************************************************************************)
C19_MonotoneGrowth ==
    (IsJoin /\ prev.err = nil /\ r.err = nil)
        => LET before == String(prev)
               now    == String(r)
           IN  /\ before.err = nil /\ now.err = nil
               /\ IsPrefix(Segs(before.val), Segs(now.val))

\* JoinSegment("..") called on a builder without error and with a path
C19_Witness ==
    /\ op.name = "JoinSegment"
    /\ op.arg = <<".", ".">>
    /\ prev.err = nil /\ r.err = nil
    /\ Len(Segs(String(prev).val)) >= 1
    /\ Segs(String(r).val) = Segs(String(prev).val)

(***************************************************************************)
(* C20: if String() or URL() on the builder at the end of a chain returns  *)
(* no error, every operation of the chain passed its check: no value given *)
(* to JoinSegment, JoinSegments or a typed join held a "/", every typed    *)
(* value was accepted by its validator and every builder given to          *)
(* JoinRoute had no error.                                                 *)
(***************************************************************************)
C20_NoFalseSuccess ==
    /\ passed \/ (String(r).err # nil /\ URL(r).err # nil)
    /\ (op.name \in {"String", "URL"} /\ out.err = nil) => passed

\* String() succeeds at the end of a chain of two operations
C20_Witness ==
    /\ op.name = "String"
    /\ out.err = nil
    /\ n = MaxOps
    /\ passed
    /\ Len(Segs(out.val)) >= 2

====
